---- MODULE Spec2Model ----
(***************************************************************************)
(* Model of the resumable monthly fetch loop of download_realdata.py:      *)
(* main(), download_single_month_with_retry(), click_excel_download(),     *)
(* try_accept_alert(), select_property_tab(), load_progress() and the JSON *)
(* progress file.                                                          *)
(*                                                                         *)
(* Representation.  A date is a pair <<year, month>>.  A month key         *)
(* f"{year:04d}{month:02d}" is the six-digit string, held as the number it *)
(* spells (200601); the empty string / missing entry is 0.  On six-digit   *)
(* strings Python's < is the numeric order, and s[:4], s[4:6] are the      *)
(* quotient and remainder by 100.                                          *)
(*                                                                         *)
(* The browser, the portal and the file system are the environment: what   *)
(* an alert check sees, whether a selector matches, whether a file exists  *)
(* are chosen with \E in the action that asks.                             *)
(*                                                                         *)
(* Specifications.  Spec: the runs of main.  SpecTest: the runs of main    *)
(* with --test-mode.  SpecMonth: one month of one type, with the download  *)
(* phase of each attempt in detail and fair program steps.  SpecWait: the  *)
(* download phase of one attempt.  SpecDates: calls of                     *)
(* generate_monthly_dates.  SpecDrive: the folder and upload calls of      *)
(* drive_uploader.py, upload_to_gdrive.py and onedrive_client.py.          *)
(* SpecCalls: single calls of the update window, load_progress,            *)
(* try_accept_alert, the mode choice of main, upload_to_drive over a       *)
(* folder, and OneDriveClient's token cache and chunk loop.                *)
(***************************************************************************)
EXTENDS Integers, Sequences, FiniteSets, TLC

\* ------------------------------------------------------------ constants
\* SECTION_START_YEAR / SECTION_START_MONTH: the same for every type.
SECTION_START_YEAR == 2006
SECTION_START_MONTH == 1
\* max_retries as main passes it.
MAX_RETRIES == 3
\* months_to_subtract of update mode.
MONTHS_TO_SUBTRACT == 2
\* the selector list of click_excel_download's third method.
NUM_SELECTORS == 5

\* default of --max-months
DEFAULT_MAX_MONTHS == 2

\* OneDriveClient._get_access_token: seconds before the expiry at which a
\* token is renewed, and the lifetime taken when the response names none
TOKEN_RENEW_MARGIN == 300
DEFAULT_EXPIRES_IN == 3600

\* OneDriveClient.upload_file: bytes of a chunk, and the largest file sent
\* with a single request
CHUNK_SIZE == 4 * 1024 * 1024
SINGLE_PUT_LIMIT == 5 * 1024 * 1024

\* ------------------------------------------------------------ bounds
\* The clock of the first run is the month after the section start, and it
\* moves forward by at most MaxClockSteps months over the later runs.
MaxClockSteps == 1
\* Buttons on the page that click_excel_download's fourth method walks.
NumButtons == 1
\* Sizes above SIZE_MIN that the exported file can have.
MaxGrow == 2
\* Checks of the directory that the wait loop makes before its timeout.
MaxPolls == 5
\* generate_monthly_dates is called with start months and with today in the
\* MaxGenYears years from GenFirstYear on (the second one is a leap year).
GenFirstYear == 2023
MaxGenYears == 2

\* folders and files a Drive holds, and the largest file size
MaxFolders == 3

MaxFiles == 2

MaxSize == 2

\* the largest --max-months of a run in test mode
MaxMonthsArg == 2

\* the most passes of try_accept_alert's polling loop before its timeout
MaxAlertPolls == 3

\* the most chunks of a file sent in chunks
MaxFileChunks == 3

\* Two of the seven PROPERTY_TYPES, in list order; the loops treat every
\* type alike.  sanitize_folder_name leaves both names unchanged, so the
\* progress key of a type is the type.
PROPERTY_TYPES == <<"apt", "land">>

Types == {PROPERTY_TYPES[i] : i \in 1..Len(PROPERTY_TYPES)}

VARIABLES
    today,                   \* date.today() of the running process
    clock_steps,             \* months the clock has moved since the first run
    file,                    \* download_progress.json: type -> last_month key
    progress,                \* main's progress dict: type -> last_month key
    update_mode,             \* main's update_mode
    properties_to_download,  \* main's list of types to process
    prop_idx,                \* position in properties_to_download
    section_monthly_dates,   \* the month list of the current type
    month_idx,               \* position in section_monthly_dates
    retry_count,             \* reload loop of main (tab re-selection)
    attempt,                 \* download_single_month_with_retry's attempt
    dl_result,               \* return value of download_single_month_with_retry
    pc,                      \* where the process is
    end,                     \* how the last run ended
    loaded,                  \* progress as load_progress returned it
    capDetected,             \* an alert check of this run saw the cap dialog
    noDataSeen,              \* an alert check saw no-data for the current month
    clicks,                  \* export clicks made for the current month,
                             \* counted up to MAX_RETRIES + 1
    fileMoved,               \* a file was moved to the destination (this month)
    fileUploaded,            \* the moved file was uploaded to Drive (this month)
    failed,                  \* a (type, month) whose attempts all failed and
                             \* that has not succeeded since, or NoFailure
    test_mode,               \* args.test_mode of the runs
    max_months,              \* args.max_months of the runs
    \* the download phase of one attempt, in detail
    wpc,                     \* where the attempt is in its download phase
    temp_file,               \* the file of the export in TEMP_DOWNLOAD_DIR
    baseline_files,          \* the attempt's baseline_files (names)
    last_size,               \* wait_for_download's last_size of the file
    stable_count,            \* wait_for_download's stable_count of the file
    polls,                   \* checks of the directory made by the wait loop
    wait_result,             \* what wait_for_download returned
    seen,                    \* sizes of the Excel file at the last checks
    \* one call of a function of the program, on its own
    call_in,                 \* the arguments (and what the call reads), or NoCall
    call_out,                \* what the call returned, or NoCall
    \* the cloud stores behind the upload wrappers
    drive_folders,           \* folders of the Drive, the ID is the position
    drive_files,             \* files of the Drive, the ID is the position
    folder_cache,            \* DriveUploader._folder_cache of the process
    returned_ids,            \* (parent, name, ID) the folder calls returned
    onedrive_files           \* items of the OneDrive folder

mainVars == <<today, clock_steps, file, progress, update_mode,
              properties_to_download, prop_idx, section_monthly_dates,
              month_idx, retry_count, attempt, dl_result, pc, end, loaded,
              capDetected, noDataSeen, clicks, fileMoved, fileUploaded,
              failed,
             test_mode, max_months>>

waitVars == <<wpc, temp_file, baseline_files, last_size, stable_count, polls,
              wait_result, seen>>

callVars == <<call_in, call_out>>

driveVars == <<drive_folders, drive_files, folder_cache, returned_ids,
               onedrive_files>>

vars == <<mainVars, waitVars, callVars, driveVars>>

\* ------------------------------------------------------------ dates
DateLE(a, b) == a[1] < b[1] \/ (a[1] = b[1] /\ a[2] <= b[2])

DateLT(a, b) == DateLE(a, b) /\ a # b

\* the month after <<y, m>>
next_month(d) == IF d[2] = 12 THEN <<d[1] + 1, 1>> ELSE <<d[1], d[2] + 1>>

\* the month before <<y, m>>
prev_month(d) == IF d[2] = 1 THEN <<d[1] - 1, 12>> ELSE <<d[1], d[2] - 1>>

\* f"{year:04d}{month:02d}"
month_key(d) == d[1] * 100 + d[2]

\* int(last_completed[:4]), int(last_completed[4:6])
parse_key(k) == <<k \div 100, k % 100>>

RECURSIVE generate_monthly_dates(_, _)
generate_monthly_dates(current, now) ==
    IF DateLE(current, now)
    THEN <<current>> \o generate_monthly_dates(next_month(current), now)
    ELSE <<>>

\* variant of update_start that does not wrap the year
update_start_same_year(now) ==
    IF now[2] <= MONTHS_TO_SUBTRACT
    THEN <<now[1], 1>>
    ELSE <<now[1], now[2] - MONTHS_TO_SUBTRACT>>

\* first month of the update window
update_start(now) ==
    IF now[2] <= MONTHS_TO_SUBTRACT
    THEN <<now[1] - 1, now[2] + 12 - MONTHS_TO_SUBTRACT>>
    ELSE <<now[1], now[2] - MONTHS_TO_SUBTRACT>>

SeqToSet(s) == {s[i] : i \in 1..Len(s)}

MinDate(S) == CHOOSE x \in S : \A y \in S : DateLE(x, y)

MaxDate(S) == CHOOSE x \in S : \A y \in S : DateLE(y, x)

\* ------------------------------------------------------------ alerts
NoAlert == [present |-> FALSE, has100 |-> FALSE, hasNoData |-> FALSE]

\* what an alert check can find: nothing, or a dialog whose text may contain
\* "100" and may contain the no-data phrase
Alerts == {NoAlert} \cup [present : {TRUE}, has100 : BOOLEAN, hasNoData : BOOLEAN]

Sentinels == {"DOWNLOAD_LIMIT_100", "NO_DATA_AVAILABLE"}

\* variant of try_accept_alert that looks for the no-data phrase first
try_accept_alert_no_data_first(a) ==
    IF ~a.present THEN "False"
    ELSE IF a.hasNoData THEN "NO_DATA_AVAILABLE"
    ELSE IF a.has100 THEN "DOWNLOAD_LIMIT_100"
    ELSE "True"

\* try_accept_alert when reading the alert finds a (one pass of its loop, or
\* the whole call when a is what the passes before the timeout find)
try_accept_alert(a) ==
    IF ~a.present THEN "False"
    ELSE IF a.has100 THEN "DOWNLOAD_LIMIT_100"
    ELSE IF a.hasNoData THEN "NO_DATA_AVAILABLE"
    ELSE "True"

\* try_accept_alert: whether the pass that reads a calls alert.accept()
alert_accepted(a) ==
    IF ~a.present THEN FALSE
    ELSE IF a.has100 THEN TRUE
    ELSE IF a.hasNoData THEN TRUE
    ELSE TRUE

\* try_accept_alert: the passes of the loop until the timeout; passes[i] is what
\* reading the alert finds in pass i.  A pass without alert sleeps and the
\* loop goes on; the first pass with an alert ends the call.
RECURSIVE poll_alert(_, _)
poll_alert(passes, i) ==
    IF i > Len(passes) THEN [result |-> "False", accepted |-> {}]
    ELSE IF passes[i].present
    THEN [result |-> try_accept_alert(passes[i]),
          accepted |-> IF alert_accepted(passes[i]) THEN {i} ELSE {}]
    ELSE poll_alert(passes, i + 1)

\* select_property_tab: `outer` is what the alert checks outside any try
\* block find, `inner` what the checks after a tab click find (inside
\* try/except Exception, which swallows what they raise), `activated` whether
\* some method gets the tab selected.
select_property_tab(outer, inner, activated) ==
    LET o == try_accept_alert(outer)
        i == try_accept_alert(inner)
    IN  IF o \in Sentinels
        THEN [ret |-> o, sawCap |-> o = "DOWNLOAD_LIMIT_100",
              sawNoData |-> o = "NO_DATA_AVAILABLE"]
        ELSE [ret |-> IF activated THEN "True" ELSE "False",
              sawCap |-> i = "DOWNLOAD_LIMIT_100",
              sawNoData |-> i = "NO_DATA_AVAILABLE"]

TabOutcomes ==
    {select_property_tab(o, i, a) : o \in Alerts, i \in Alerts, a \in BOOLEAN}

\* The page refresh before a retry or before the next month: driver.get (which
\* may raise), an alert check, the tab re-selection.  ret is "ok" when nothing
\* was raised, else what was raised; tab_ok is select_property_tab's result.
refresh_page(nav_ok, a, tab) ==
    LET t == try_accept_alert(a)
    IN  IF ~nav_ok
        THEN [ret |-> "error", tab_ok |-> FALSE, sawCap |-> FALSE, sawNoData |-> FALSE]
        ELSE IF t \in Sentinels
        THEN [ret |-> t, tab_ok |-> FALSE, sawCap |-> t = "DOWNLOAD_LIMIT_100",
              sawNoData |-> t = "NO_DATA_AVAILABLE"]
        ELSE [ret |-> IF tab.ret \in Sentinels THEN tab.ret ELSE "ok",
              tab_ok |-> tab.ret = "True",
              sawCap |-> tab.sawCap, sawNoData |-> tab.sawNoData]

RefreshOutcomes ==
    {refresh_page(n, a, t) : n \in BOOLEAN, a \in Alerts, t \in TabOutcomes}

\* The refresh that download_single_month_with_retry makes inside the try
\* block of the click (r1): NO_DATA_AVAILABLE raised there is taken as "no
\* data" ("return True"), DOWNLOAD_LIMIT_100 is raised again, and any other
\* error leads to the refresh of the except clause (r2), whose errors all go
\* up to main.
refresh_in_try(r1, r2) ==
    IF r1.ret = "error" THEN r2
    ELSE IF r1.ret = "NO_DATA_AVAILABLE" THEN [r1 EXCEPT !.ret = "return True"]
    ELSE r1

TryRefreshOutcomes ==
    {refresh_in_try(r1, r2) : r1 \in RefreshOutcomes, r2 \in RefreshOutcomes}

\* ------------------------------------------------------------ progress
EmptyProgress == [t \in Types |-> 0]

expected_months(now) ==
    SeqToSet(generate_monthly_dates(<<SECTION_START_YEAR, SECTION_START_MONTH>>, now))

\* load_progress, the entry rebuilt for one type from the months in Drive
rebuilt_last_month(all_months, now) ==
    LET missing == expected_months(now) \ all_months
    IN  IF all_months = {} THEN 0
        ELSE IF missing # {} THEN month_key(prev_month(MinDate(missing)))
        ELSE month_key(MaxDate(all_months))

\* no file of any type in Drive
EmptyDrive == [t \in Types |-> {}]

\* uploader.get_all_file_months (called at 1443) when Drive holds the months
\* drive_months: DriveUploader defines no method of this name, so the call
\* raises AttributeError whatever Drive holds
get_all_file_months(drive_months) == "AttributeError"

\* load_progress: the local file when it is not empty, else the rebuild from
\* Drive when Drive can be used and the listing of its months does not
\* raise, else {}
load_progress(f, drive_ok, drive_months, now) ==
    IF f # EmptyProgress THEN f
    ELSE IF drive_ok /\ get_all_file_months(drive_months) # "AttributeError"
    THEN [t \in Types |->
            rebuilt_last_month(get_all_file_months(drive_months)[t], now)]
    ELSE EmptyProgress

\* main: the types whose last_month is missing or before the current month
RECURSIVE to_download(_, _, _)
to_download(p, now, i) ==
    IF i > Len(PROPERTY_TYPES) THEN <<>>
    ELSE (IF p[PROPERTY_TYPES[i]] = 0 \/ p[PROPERTY_TYPES[i]] < month_key(now)
          THEN <<PROPERTY_TYPES[i]>> ELSE <<>>) \o to_download(p, now, i + 1)

\* variant of decide_update_mode in which --update-mode forces the mode
decide_update_mode_forced(arg_update_mode, todo) ==
    IF arg_update_mode
    THEN TRUE
    ELSE IF todo = <<>> THEN TRUE
    ELSE FALSE

\* main: the mode
decide_update_mode(arg_update_mode, todo) ==
    IF arg_update_mode
    THEN (IF todo = <<>> THEN TRUE ELSE FALSE)
    ELSE IF todo = <<>> THEN TRUE
    ELSE FALSE

\* main: the types of the run, set next to the mode in the same branches
decide_properties(arg_update_mode, todo) ==
    IF arg_update_mode
    THEN (IF todo = <<>> THEN PROPERTY_TYPES ELSE todo)
    ELSE IF todo = <<>> THEN PROPERTY_TYPES
    ELSE todo

\* variant of full_start that starts at the recorded month itself
full_start_inclusive(last_completed) ==
    IF last_completed # 0
    THEN parse_key(last_completed)
    ELSE <<SECTION_START_YEAR, SECTION_START_MONTH>>

\* main: first month of a type in full-download mode
full_start(last_completed) ==
    IF last_completed # 0
    THEN next_month(parse_key(last_completed))
    ELSE <<SECTION_START_YEAR, SECTION_START_MONTH>>

\* main: the month list of a type
section_dates(is_update, last_completed, now) ==
    IF is_update
    THEN generate_monthly_dates(update_start(now), now)
    ELSE generate_monthly_dates(full_start(last_completed), now)

\* is_already_downloaded: never inside the update window in update mode,
\* else whether the file exists locally or in Drive
is_already_downloaded(d, is_update, now, exists) ==
    IF is_update /\ DateLE(update_start(now), d) THEN FALSE ELSE exists

\* no failure is being followed
NoFailure == [type |-> "", key |-> 0]

\* The failure that is followed: the first month whose attempts all failed,
\* until that month succeeds (StartRun drops it when the progress is rebuilt
\* from Drive, whose files say nothing about the attempts of earlier runs).
failed_after(f, prop_key, key, success) ==
    IF success
    THEN (IF f = [type |-> prop_key, key |-> key] THEN NoFailure ELSE f)
    ELSE (IF f = NoFailure THEN [type |-> prop_key, key |-> key] ELSE f)

\* variant of progress_after that records the month whatever the result
progress_always(p, prop_key, key, success) ==
    [p EXCEPT ![prop_key] = key]

\* main, after download_single_month_with_retry returned
progress_after(p, prop_key, key, success) ==
    IF success THEN [p EXCEPT ![prop_key] = key] ELSE p


\* variant of file_after that never rewrites the file
file_kept(f, p, success) == f

\* main and save_progress: the progress file after
\* download_single_month_with_retry returned, p being the progress in memory
\* after the month was recorded
file_after(f, p, success) ==
    IF success THEN p ELSE f

\* ------------------------------------------------------------ export click
\* One method of click_excel_download that clicks and then looks for an
\* alert: the click is made (`acted`) or the method falls through to the next.
Outcome(ret, n, cap, nodata) ==
    [ret |-> ret, n |-> n, sawCap |-> cap, sawNoData |-> nodata]

\* Methods 1 and 2: what the alert check raises leaves click_excel_download.
direct_click(a) ==
    LET t == try_accept_alert(a)
    IN  Outcome(IF t \in Sentinels THEN t ELSE "True", 1,
                t = "DOWNLOAD_LIMIT_100", t = "NO_DATA_AVAILABLE")

\* the export clicks of the month, counted up to MAX_RETRIES + 1
count_clicks(sofar, n) ==
    IF sofar + n <= MAX_RETRIES THEN sofar + n ELSE MAX_RETRIES + 1

\* Methods 3 and 4: the selectors, then the buttons of the page, each in its
\* own try block whose except clause goes on to the next one, so that what the
\* alert check raises is dropped and the next element is clicked.  `k` elements
\* are left; with none left click_excel_download returns False.
RECURSIVE loop_clicks(_)
loop_clicks(k) ==
    IF k = 0 THEN {Outcome("False", 0, FALSE, FALSE)}
    ELSE LET rest == loop_clicks(k - 1)
         IN  rest
             \cup {Outcome("True", 1, FALSE, FALSE)}
             \cup {Outcome(o.ret, count_clicks(o.n, 1), TRUE, o.sawNoData) : o \in rest}
             \cup {Outcome(o.ret, count_clicks(o.n, 1), o.sawCap, TRUE) : o \in rest}

\* click_excel_download: method 1, else method 2, else the two loops
ClickOutcomes ==
    {direct_click(a) : a \in Alerts} \cup loop_clicks(NUM_SELECTORS + NumButtons)

\* ------------------------------------------------------------ download wait
\* wait_for_download: a new Excel file counts from more than this many bytes
SIZE_MIN == 1000

\* wait_for_download: checks with an unchanged size that make a file stable
STABLE_CHECKS == 3

\* The sizes a file can have: SIZE_MIN (too small to count) and MaxGrow sizes
\* above it.
FileSizes == SIZE_MIN..(SIZE_MIN + MaxGrow)

\* The file that the export leaves in TEMP_DOWNLOAD_DIR: its name is that of a
\* download in progress ("crdownload") or of an Excel file ("xlsx"), `writing`
\* says whether the browser is still writing it, and `early` whether its mtime
\* is more than five seconds before the start of wait_for_download.
NoFile == [kind |-> "absent", size |-> 0, writing |-> FALSE, early |-> FALSE]

\* set(TEMP_DOWNLOAD_DIR.glob("*")), as names
glob(f) == IF f.kind = "absent" THEN {} ELSE {f.kind}

\* wait_for_download: the new Excel files of a check
excel_files(f, baseline) ==
    IF f.kind = "xlsx" /\ f.kind \notin baseline THEN {f.kind} ELSE {}

\* wait_for_download: last_size and stable_count after a check that found the
\* new Excel file with a size above SIZE_MIN
stability(ls, sc, size) ==
    IF ls # 0
    THEN (IF ls = size THEN [last_size |-> ls, stable_count |-> sc + 1]
          ELSE [last_size |-> size, stable_count |-> 0])
    ELSE [last_size |-> size, stable_count |-> 0]

\* wait_for_download: the mtime of the stable file is at most 5 s before and
\* at most 30 s after the start of the wait (the wait lasts 15 s, so only the
\* lower limit can fail)
time_diff_ok(f) == ~f.early

\* variant of timeout_result that returns the newest new file whatever its
\* suffix
timeout_result_any(f, baseline) ==
    IF glob(f) \ baseline # {} THEN "file" ELSE "None"

\* wait_for_download after the timeout: the newest file that is not in the
\* baseline is returned when it is an Excel file, checked or not
timeout_result(f, baseline) ==
    LET new_files == glob(f) \ baseline
    IN  IF new_files # {} /\ f.kind = "xlsx" THEN "file" ELSE "None"

\* the sizes of the Excel file at the last STABLE_CHECKS checks (0: no Excel
\* file at the check)
observed(sq, f) ==
    LET all == Append(sq, IF f.kind = "xlsx" THEN f.size ELSE 0)
    IN  IF Len(all) > STABLE_CHECKS THEN Tail(all) ELSE all

\* ------------------------------------------------------------ cloud stores
\* Google Drive as drive_uploader.py and upload_to_gdrive.py use it, and the
\* OneDrive folder of onedrive_client.py.  A folder is [name, parent], a file
\* is [name, parent, size]; the ID of an item is its position in the list,
\* GDRIVE_FOLDER_ID is 0 and None is NoId.  Every API call is a choice of the
\* environment between its answer and an error (ok = FALSE).
GDRIVE_FOLDER_ID == 0

NoId == 0 - 1

PARENT_FOLDER_PATH == <<"realdata">>

\* f"{property_type} {year:04d}{month:02d}.xlsx"
file_name_of(property_type, key) == <<property_type, key, "xlsx">>

DriveMonths == {202401}

FileNamesOf(property_type) == {file_name_of(property_type, k) : k \in DriveMonths}

FileSizesUp == 1..MaxSize

\* files().list(q = name, folder mime type, parent): the matching folders
folder_items(folders, folder_name, parent) ==
    {i \in 1..Len(folders) :
        folders[i].name = folder_name /\ folders[i].parent = parent}

\* files().list(q = name, parent): the matching files
file_items(files, file_name, parent) ==
    {i \in 1..Len(files) :
        files[i].name = file_name /\ files[i].parent = parent}

\* the entries of _folder_cache under cache_key = f"{parent}:{folder_name}"
cached(cache, folder_name, parent) ==
    {c \in cache : c[1] = parent /\ c[2] = folder_name}

\* self._folder_cache[cache_key] = folder_id
cache_put(cache, folder_name, parent, id) ==
    (cache \ cached(cache, folder_name, parent)) \cup {<<parent, folder_name, id>>}

\* The results [id, cache] of find_folder_by_name: the cached ID; else None
\* when the list call raised or found nothing; else items[0], which is any of
\* the matching folders (the query gives no order), cached.
find_folder_by_name(folder_name, parent, folders, cache, ok) ==
    IF cached(cache, folder_name, parent) # {}
    THEN {[id |-> c[3], cache |-> cache] : c \in cached(cache, folder_name, parent)}
    ELSE IF ~ok \/ folder_items(folders, folder_name, parent) = {}
    THEN {[id |-> NoId, cache |-> cache]}
    ELSE {[id |-> i, cache |-> cache_put(cache, folder_name, parent, i)] :
             i \in folder_items(folders, folder_name, parent)}

\* The result [id, folders, cache] of create_folder: a new folder, cached, or
\* None after an HttpError.
create_folder(folder_name, parent, folders, cache, ok) ==
    IF ok
    THEN [id |-> Len(folders) + 1,
          folders |-> Append(folders, [name |-> folder_name, parent |-> parent]),
          cache |-> cache_put(cache, folder_name, parent, Len(folders) + 1)]
    ELSE [id |-> NoId, folders |-> folders, cache |-> cache]

\* The results of get_or_create_folder: what the lookup found, else what
\* create_folder returns.
get_or_create_folder(folder_name, parent, folders, cache, ok_list, ok_create) ==
    {IF f.id # NoId
     THEN [id |-> f.id, folders |-> folders, cache |-> f.cache]
     ELSE create_folder(folder_name, parent, folders, f.cache, ok_create) :
        f \in find_folder_by_name(folder_name, parent, folders, cache, ok_list)}

\* The results of get_folder_path_ids, as the ID of the last folder of
\* PARENT_FOLDER_PATH (one folder under GDRIVE_FOLDER_ID): None when
\* files().get raised, else the folder found or created.
get_folder_path_ids(folders, cache, ok_get, ok_list, ok_create) ==
    IF ~ok_get
    THEN {[id |-> NoId, folders |-> folders, cache |-> cache]}
    ELSE {IF f.id # NoId
          THEN [id |-> f.id, folders |-> folders, cache |-> f.cache]
          ELSE create_folder(PARENT_FOLDER_PATH[1], GDRIVE_FOLDER_ID, folders,
                             f.cache, ok_create) :
             f \in find_folder_by_name(PARENT_FOLDER_PATH[1], GDRIVE_FOLDER_ID,
                                       folders, cache, ok_list)}

\* the Drive after a call that returned None before files().create
NoUpload(p, s, r, files) ==
    [id |-> NoId, path |-> p, section |-> s, folders |-> r.folders,
     files |-> files, cache |-> r.cache]

\* The results of DriveUploader.upload_file: the path folder, the section
\* folder under it, then files().create of a new file in the section folder.
\* ok is the list of the six API calls' outcomes.
upload_file(file_name, section_folder_name, size, folders, files, cache, ok) ==
    UNION {IF p.id = NoId
           THEN {NoUpload(NoId, NoId, p, files)}
           ELSE {IF s.id = NoId \/ ~ok[6]
                 THEN NoUpload(p.id, s.id, s, files)
                 ELSE [id |-> Len(files) + 1, path |-> p.id, section |-> s.id,
                       folders |-> s.folders,
                       files |-> Append(files, [name |-> file_name,
                                                parent |-> s.id, size |-> size]),
                       cache |-> s.cache] :
                    s \in get_or_create_folder(section_folder_name, p.id,
                                               p.folders, p.cache, ok[4], ok[5])} :
              p \in get_folder_path_ids(folders, cache, ok[1], ok[2], ok[3])}

\* The results [folders, files] of upload_to_drive for a local directory of
\* one folder with one file: the folder found (items[0]) or created; the file
\* skipped when existing_files.json lists it (listed); else looked up by name,
\* updated when the size differs, created when there is none.  An API error
\* raises and leaves the Drive as it is at that point.  ok is the list of the
\* four API calls' outcomes.
upload_to_drive(folder_name, file_name, size, listed, folders, files, ok) ==
    LET found == folder_items(folders, folder_name, GDRIVE_FOLDER_ID)
        made == Append(folders, [name |-> folder_name, parent |-> GDRIVE_FOLDER_ID])
        step(fs, fid) ==
            IF listed \/ ~ok[3] \/ ~ok[4]
            THEN {[folders |-> fs, files |-> files]}
            ELSE IF file_items(files, file_name, fid) # {}
            THEN {[folders |-> fs,
                   files |-> IF files[j].size # size
                             THEN [files EXCEPT ![j].size = size] ELSE files] :
                     j \in file_items(files, file_name, fid)}
            ELSE {[folders |-> fs,
                   files |-> Append(files, [name |-> file_name, parent |-> fid,
                                            size |-> size])]}
    IN  IF ~ok[1]
        THEN {[folders |-> folders, files |-> files]}
        ELSE IF found # {}
        THEN UNION {step(folders, i) : i \in found}
        ELSE IF ~ok[2]
        THEN {[folders |-> folders, files |-> files]}
        ELSE step(made, Len(made))

\* The OneDrive folder after OneDriveClient.upload_file of a local file of
\* that size (0: the file is missing or empty) to folder/filename: an upload
\* session with conflictBehavior "replace", then the content.
onedrive_upload_file(filename, size, items, ok_session, ok_put) ==
    IF size = 0 \/ ~ok_session \/ ~ok_put
    THEN items
    ELSE IF \E i \in 1..Len(items) : items[i].name = filename
    THEN [i \in 1..Len(items) |->
             IF items[i].name = filename
             THEN [name |-> filename, size |-> size] ELSE items[i]]
    ELSE Append(items, [name |-> filename, size |-> size])

\* an empty Drive folder GDRIVE_FOLDER_ID, a new process, an empty OneDrive
\* folder
DriveInit ==
    /\ drive_folders = <<>>
    /\ drive_files = <<>>
    /\ folder_cache = {}
    /\ returned_ids = {}
    /\ onedrive_files = <<>>

\* ------------------------------------------------------------ state machine
FirstToday == next_month(<<SECTION_START_YEAR, SECTION_START_MONTH>>)

\* tries of main's reload loop (while retry_count < 3)
RELOAD_TRIES == 3

CurType == properties_to_download[prop_idx]

CurMonth == section_monthly_dates[month_idx]

\* what only StartRun changes, and the download phase that the runs of main
\* leave as it is (WaitForDownload takes its result as a choice)
runVars == <<today, clock_steps, update_mode, properties_to_download, loaded,
             test_mode, max_months, waitVars, callVars, driveVars>>

storeVars == <<file, progress>>

posVars == <<prop_idx, section_monthly_dates, month_idx>>

\* the locals of the loop body for one month
monthVars == <<retry_count, attempt, dl_result, clicks, fileMoved,
               fileUploaded>>

\* the download phase before the export click of an attempt
WaitInit ==
    /\ wpc = "before_click"
    /\ temp_file = NoFile
    /\ baseline_files = {}
    /\ last_size = 0
    /\ stable_count = 0
    /\ polls = 0
    /\ wait_result = "pending"
    /\ seen = <<>>

\* no call is being looked at
NoCall == [fn |-> "none"]

CallInit ==
    /\ call_in = NoCall
    /\ call_out = NoCall

\* the process before main is entered for the first time
ProcessInit ==
    /\ today = FirstToday
    /\ clock_steps = 0
    /\ file = EmptyProgress
    /\ progress = EmptyProgress
    /\ update_mode = FALSE
    /\ properties_to_download = <<>>
    /\ prop_idx = 0
    /\ section_monthly_dates = <<>>
    /\ month_idx = 0
    /\ retry_count = 0
    /\ attempt = 0
    /\ dl_result = FALSE
    /\ pc = "idle"
    /\ end = "none"
    /\ loaded = EmptyProgress
    /\ capDetected = FALSE
    /\ noDataSeen = FALSE
    /\ clicks = 0
    /\ fileMoved = FALSE
    /\ fileUploaded = FALSE
    /\ failed = NoFailure

\* the runs are made without --test-mode
MainInit ==
    /\ ProcessInit
    /\ test_mode = FALSE
    /\ max_months = DEFAULT_MAX_MONTHS

Init ==
    /\ MainInit
    /\ WaitInit
    /\ CallInit
    /\ DriveInit

\* The locals at the start of the loop body for one month.
FreshMonth ==
    /\ retry_count' = 0
    /\ attempt' = 0
    /\ dl_result' = FALSE
    /\ clicks' = 0
    /\ fileMoved' = FALSE
    /\ fileUploaded' = FALSE

\* An exception reaches main's except clause: the run ends and the process
\* exits (its locals are gone; where it stopped is kept in posVars).
Raise(exc) ==
    /\ pc' = "idle"
    /\ end' = IF exc = "DOWNLOAD_LIMIT_100" THEN "cap" ELSE "error"
    /\ FreshMonth

\* The process goes on at p.
Goto(p) ==
    /\ pc' = p
    /\ end' = end
    /\ UNCHANGED monthVars

\* download_single_month_with_retry returns v to main.
Return(v) ==
    /\ pc' = "record"
    /\ dl_result' = v
    /\ end' = end
    /\ UNCHANGED <<retry_count, attempt, clicks, fileMoved, fileUploaded>>

\* variant of NextAttempt that does not count the attempts
SameAttempt ==
    /\ pc' = "set_dates"
    /\ attempt' = attempt
    /\ end' = end
    /\ UNCHANGED <<retry_count, dl_result, clicks, fileMoved, fileUploaded>>

\* `continue`: the next attempt of the month.
NextAttempt ==
    /\ pc' = "set_dates"
    /\ attempt' = attempt + 1
    /\ end' = end
    /\ UNCHANGED <<retry_count, dl_result, clicks, fileMoved, fileUploaded>>

\* What the alert checks of a step saw.
Saw(cap, nodata) ==
    /\ capDetected' = (capDetected \/ cap)
    /\ noDataSeen' = (noDataSeen \/ nodata)

\* main: the position in properties_to_download after a type whose months
\* were gone through: the next type, or past the last one after the `break`
\* of the test mode
after_type(is_test, idx, props) ==
    IF is_test THEN Len(props) + 1 ELSE idx + 1

\* variant of Advance that takes up the same month again
AdvanceSame ==
    /\ FreshMonth
    /\ noDataSeen' = FALSE
    /\ end' = end
    /\ pc' = "reload"
    /\ UNCHANGED posVars

\* main: the loop goes on to the next month, or the type is finished.
Advance ==
    /\ FreshMonth
    /\ noDataSeen' = FALSE
    /\ end' = end
    /\ IF month_idx < Len(section_monthly_dates)
       THEN /\ month_idx' = month_idx + 1
            /\ section_monthly_dates' = section_monthly_dates
            /\ prop_idx' = prop_idx
            /\ pc' = "reload"
       ELSE /\ month_idx' = 0
            /\ section_monthly_dates' = <<>>
            /\ prop_idx' = after_type(test_mode, prop_idx, properties_to_download)
            /\ pc' = "select_tab"

\* main: parse the arguments, load the progress, choose the types and the mode.
StartRun ==
    /\ pc = "idle"
    /\ \E adv \in 0..1 :
       /\ clock_steps + adv <= MaxClockSteps
       /\ clock_steps' = clock_steps + adv
       /\ today' = IF adv = 1 THEN next_month(today) ELSE today
    /\ IF file # EmptyProgress
       THEN progress' = load_progress(file, FALSE, EmptyDrive, today')
       ELSE \E drive_ok \in BOOLEAN :
            \E drive_months \in [Types -> SUBSET expected_months(today')] :
               progress' = load_progress(file, drive_ok, drive_months, today')
    /\ file' = IF file = EmptyProgress THEN progress' ELSE file
    /\ \E arg_update_mode \in BOOLEAN :
       LET todo == to_download(progress', today', 1)
       IN  /\ update_mode' = decide_update_mode(arg_update_mode, todo)
           /\ properties_to_download' = decide_properties(arg_update_mode, todo)
    /\ loaded' = progress'
    /\ prop_idx' = 0
    /\ section_monthly_dates' = <<>>
    /\ month_idx' = 0
    /\ FreshMonth
    /\ capDetected' = FALSE
    /\ noDataSeen' = FALSE
    /\ pc' = "connect"
    /\ end' = "running"
    /\ failed' = IF file = EmptyProgress /\ progress' # EmptyProgress
                 THEN NoFailure ELSE failed
    /\ UNCHANGED <<test_mode, max_months, waitVars, callVars, driveVars>>

\* main: open the site, first alert check.
Connect ==
    /\ pc = "connect"
    /\ \E nav_ok \in BOOLEAN, a \in Alerts :
       LET t == try_accept_alert(a)
       IN  /\ capDetected' = (capDetected \/ (nav_ok /\ t = "DOWNLOAD_LIMIT_100"))
           /\ IF ~nav_ok THEN Raise("error") /\ prop_idx' = prop_idx
              ELSE IF t \in Sentinels THEN Raise(t) /\ prop_idx' = prop_idx
              ELSE Goto("select_tab") /\ prop_idx' = 1
    /\ UNCHANGED <<runVars, storeVars, section_monthly_dates, month_idx, failed,
                   noDataSeen>>

\* main: select the tab of the next type and build its month list.
SelectTab ==
    /\ pc = "select_tab"
    /\ prop_idx <= Len(properties_to_download)
    /\ \E tab \in TabOutcomes :
       /\ capDetected' = (capDetected \/ tab.sawCap)
       /\ IF tab.ret \in Sentinels
          THEN Raise(tab.ret) /\ UNCHANGED posVars
          ELSE IF tab.ret = "False"
          THEN /\ Goto("select_tab")
               /\ prop_idx' = prop_idx + 1
               /\ UNCHANGED <<section_monthly_dates, month_idx>>
          ELSE LET dates == section_dates(update_mode, progress[CurType], today)
               IN  /\ section_monthly_dates' = (IF dates = <<>> THEN <<>> ELSE dates)
                   /\ IF dates = <<>>
                      THEN /\ Goto("select_tab")
                           /\ prop_idx' = prop_idx + 1
                           /\ month_idx' = 0
                      ELSE /\ Goto("check_existing")
                           /\ prop_idx' = prop_idx
                           /\ month_idx' = 1
    /\ UNCHANGED <<runVars, storeVars, failed, noDataSeen>>

\* main: every type has been processed.
Finish ==
    /\ pc = "select_tab"
    /\ prop_idx > Len(properties_to_download)
    /\ pc' = "idle"
    /\ end' = "complete"
    /\ UNCHANGED <<runVars, storeVars, posVars, monthVars, failed, capDetected,
                   noDataSeen>>

\* main: from the second month on, reload the page and re-select the tab, up to
\* three tries; whatever a try raises is caught and counted as a failed try.
ReloadTry ==
    /\ pc = "reload"
    /\ \E r \in RefreshOutcomes :
       /\ Saw(r.sawCap, r.sawNoData)
       /\ IF r.ret = "ok" /\ r.tab_ok
          THEN pc' = "check_existing" /\ retry_count' = 0
          ELSE IF retry_count + 1 < RELOAD_TRIES
          THEN pc' = pc /\ retry_count' = retry_count + 1
          ELSE pc' = "check_existing" /\ retry_count' = 0
    /\ UNCHANGED <<runVars, storeVars, posVars, failed, attempt, dl_result, end,
                   clicks, fileMoved, fileUploaded>>

\* main: skip the month when its file already exists.
CheckExisting ==
    /\ pc = "check_existing"
    /\ \E exists \in BOOLEAN :
       IF is_already_downloaded(CurMonth, update_mode, today, exists)
       THEN Advance
       ELSE Goto("dl_enter") /\ UNCHANGED <<posVars, noDataSeen>>
    /\ UNCHANGED <<runVars, storeVars, failed, capDetected>>

\* download_single_month_with_retry: the existence check at its head.
DlEnter ==
    /\ pc = "dl_enter"
    /\ \E exists \in BOOLEAN :
       IF is_already_downloaded(CurMonth, update_mode, today, exists)
       THEN Return(TRUE)
       ELSE NextAttempt
    /\ UNCHANGED <<runVars, storeVars, posVars, failed, capDetected, noDataSeen>>

\* After a failed attempt that is not the last: a page refresh, made outside
\* any try block (what it raises goes up to main), then `continue`.  After the
\* last attempt: return False.
RetryOrFail ==
    IF attempt < MAX_RETRIES
    THEN \E r \in RefreshOutcomes :
            /\ Saw(r.sawCap, r.sawNoData)
            /\ IF r.ret = "ok" THEN NextAttempt ELSE Raise(r.ret)
    ELSE /\ Return(FALSE)
         /\ UNCHANGED <<capDetected, noDataSeen>>

\* an attempt: set the dates, then the alert check after them
SetDates ==
    /\ pc = "set_dates"
    /\ \E dates_ok \in BOOLEAN, a \in Alerts :
       LET t == try_accept_alert(a)
       IN  IF ~dates_ok
           THEN /\ UNCHANGED <<capDetected, noDataSeen>>
                /\ IF attempt < MAX_RETRIES THEN NextAttempt ELSE Return(FALSE)
           ELSE /\ Saw(t = "DOWNLOAD_LIMIT_100", t = "NO_DATA_AVAILABLE")
                /\ IF t = "NO_DATA_AVAILABLE" THEN Return(TRUE)
                   ELSE IF t = "DOWNLOAD_LIMIT_100" THEN Raise(t)
                   ELSE Goto("click")
    /\ UNCHANGED <<runVars, storeVars, posVars, failed>>

\* download_single_month_with_retry: the export click of an attempt.  What
\* click_excel_download raises is handled by the except clause of the caller.
ClickExcelDownload ==
    /\ pc = "click"
    /\ \E c \in ClickOutcomes :
       /\ Saw(c.sawCap, c.sawNoData)
       /\ IF c.ret = "DOWNLOAD_LIMIT_100" THEN Raise(c.ret)
          ELSE /\ clicks' = count_clicks(clicks, c.n)
               /\ pc' = IF c.ret = "True" THEN "wait"
                        ELSE IF c.ret = "False" THEN "click_failed"
                        ELSE "record"
               /\ dl_result' = (c.ret = "NO_DATA_AVAILABLE")
               /\ UNCHANGED <<end, retry_count, attempt, fileMoved, fileUploaded>>
    /\ UNCHANGED <<runVars, storeVars, posVars, failed>>

\* click_excel_download returned False: refresh the page and try again, or
\* give up after the last attempt.
ClickFailed ==
    /\ pc = "click_failed"
    /\ IF attempt < MAX_RETRIES
       THEN \E r \in TryRefreshOutcomes :
               /\ Saw(r.sawCap, r.sawNoData)
               /\ IF r.ret = "ok" THEN NextAttempt
                  ELSE IF r.ret = "return True" THEN Return(TRUE)
                  ELSE Raise(r.ret)
       ELSE /\ Return(FALSE)
            /\ UNCHANGED <<capDetected, noDataSeen>>
    /\ UNCHANGED <<runVars, storeVars, posVars, failed>>

\* the attempt waits for the file: wait_for_download returns a file or None
WaitForDownload ==
    /\ pc = "wait"
    /\ \E downloaded \in BOOLEAN :
       IF downloaded
       THEN Goto("move") /\ UNCHANGED <<capDetected, noDataSeen>>
       ELSE RetryOrFail
    /\ UNCHANGED <<runVars, storeVars, posVars, failed>>

\* move_and_rename_file: the rename to the destination, which may raise (the
\* attempt then counts as failed), then the upload to Drive.  `uploaded` is
\* false when the upload is not enabled, the service cannot be initialised,
\* upload_file returns None or raises; all of these are logged at most, and
\* download_single_month_with_retry returns True.
MoveFile ==
    /\ pc = "move"
    /\ \E renamed, uploaded \in BOOLEAN :
       IF renamed
       THEN /\ fileMoved' = TRUE
            /\ fileUploaded' = uploaded
            /\ pc' = "record"
            /\ dl_result' = TRUE
            /\ UNCHANGED <<end, retry_count, attempt, clicks, capDetected,
                           noDataSeen>>
       ELSE /\ RetryOrFail
            /\ ~uploaded
    /\ UNCHANGED <<runVars, storeVars, posVars, failed>>

\* main: record the month when the download succeeded, then go on
Record ==
    /\ pc = "record"
    /\ LET key == month_key(CurMonth)
       IN  /\ progress' = progress_after(progress, CurType, key, dl_result)
           /\ file' = file_after(file, progress', dl_result)
           /\ failed' = failed_after(failed, CurType, key, dl_result)
    /\ Advance
    /\ UNCHANGED <<runVars, capDetected>>

Next ==
    \/ StartRun
    \/ Connect
    \/ SelectTab
    \/ Finish
    \/ ReloadTry
    \/ CheckExisting
    \/ DlEnter
    \/ SetDates
    \/ ClickExcelDownload
    \/ ClickFailed
    \/ WaitForDownload
    \/ MoveFile
    \/ Record

Spec == Init /\ [][Next]_vars

\* ------------------------------------------------------------ download phase
\* The download phase of one attempt of download_single_month_with_retry, from
\* the export click to the return of wait_for_download, with the browser
\* writing the exported file into TEMP_DOWNLOAD_DIR meanwhile.
Downloading == wpc \in {"sleeping", "polling"}

\* a write made now: during the 10 s sleep it may be more than 5 s before the
\* wait starts, during the wait it is not
EarlyNow == IF wpc = "sleeping" THEN BOOLEAN ELSE {FALSE}

\* the snapshot before the click (the directory is empty), then the click
ExportClick ==
    /\ wpc = "before_click"
    /\ baseline_files' = glob(temp_file)
    /\ wpc' = "sleeping"
    /\ UNCHANGED <<temp_file, last_size, stable_count, polls, wait_result, seen>>
    /\ UNCHANGED <<mainVars, callVars, driveVars>>

\* the browser starts to write the exported file, under the name of a download
\* in progress or at once under its final name, or puts it there complete
BrowserCreates ==
    /\ Downloading
    /\ temp_file.kind = "absent"
    /\ \E k \in {"crdownload", "xlsx"}, sz \in FileSizes, w \in BOOLEAN,
          e \in EarlyNow :
          /\ k = "crdownload" => w
          /\ temp_file' = [kind |-> k, size |-> sz, writing |-> w, early |-> e]
    /\ UNCHANGED <<wpc, baseline_files, last_size, stable_count, polls,
                   wait_result, seen>>
    /\ UNCHANGED <<mainVars, callVars, driveVars>>

\* the browser appends to the file
BrowserWrites ==
    /\ Downloading
    /\ temp_file.writing
    /\ \E sz \in FileSizes, e \in EarlyNow :
          /\ sz > temp_file.size
          /\ temp_file' = [temp_file EXCEPT !.size = sz, !.early = e]
    /\ UNCHANGED <<wpc, baseline_files, last_size, stable_count, polls,
                   wait_result, seen>>
    /\ UNCHANGED <<mainVars, callVars, driveVars>>

\* the browser has written everything: a download in progress gets its final
\* name (the rename keeps the mtime)
BrowserFinishes ==
    /\ Downloading
    /\ temp_file.writing
    /\ temp_file' = [temp_file EXCEPT !.kind = "xlsx", !.writing = FALSE]
    /\ UNCHANGED <<wpc, baseline_files, last_size, stable_count, polls,
                   wait_result, seen>>
    /\ UNCHANGED <<mainVars, callVars, driveVars>>

\* after the click: sleep 10 s, take baseline_files again, call
\* wait_for_download with it
BaselineAfterSleep ==
    /\ wpc = "sleeping"
    /\ baseline_files' = glob(temp_file)
    /\ wpc' = "polling"
    /\ last_size' = 0
    /\ stable_count' = 0
    /\ polls' = 0
    /\ UNCHANGED <<temp_file, wait_result, seen>>
    /\ UNCHANGED <<mainVars, callVars, driveVars>>

\* wait_for_download: one check of the directory inside the loop
WaitCheck ==
    /\ wpc = "polling"
    /\ polls < MaxPolls
    /\ polls' = polls + 1
    /\ seen' = observed(seen, temp_file)
    /\ IF temp_file.kind = "crdownload"
          \/ excel_files(temp_file, baseline_files) = {}
          \/ ~(temp_file.size > SIZE_MIN)
       THEN UNCHANGED <<wpc, last_size, stable_count, wait_result>>
       ELSE LET st == stability(last_size, stable_count, temp_file.size)
            IN  /\ last_size' = st.last_size
                /\ stable_count' = st.stable_count
                /\ IF st.stable_count >= STABLE_CHECKS /\ time_diff_ok(temp_file)
                   THEN wpc' = "returned" /\ wait_result' = "file"
                   ELSE UNCHANGED <<wpc, wait_result>>
    /\ UNCHANGED <<temp_file, baseline_files>>
    /\ UNCHANGED <<mainVars, callVars, driveVars>>

\* wait_for_download: the timeout has passed
WaitTimeout ==
    /\ wpc = "polling"
    /\ polls = MaxPolls
    /\ wait_result' = timeout_result(temp_file, baseline_files)
    /\ wpc' = "returned"
    /\ UNCHANGED <<temp_file, baseline_files, last_size, stable_count, polls, seen>>
    /\ UNCHANGED <<mainVars, callVars, driveVars>>

NextWait ==
    \/ ExportClick
    \/ BrowserCreates
    \/ BrowserWrites
    \/ BrowserFinishes
    \/ BaselineAfterSleep
    \/ WaitCheck
    \/ WaitTimeout

SpecWait == Init /\ [][NextWait]_vars


\* ------------------------------------------------------------ month pairs
\* generate_monthly_dates with the days: a date is <<year, month, day>>.
is_leap(y) == (y % 4 = 0 /\ y % 100 # 0) \/ y % 400 = 0

\* the days of a month of the calendar
days_in_month(y, m) ==
    IF m = 2 THEN (IF is_leap(y) THEN 29 ELSE 28)
    ELSE IF m \in {4, 6, 9, 11} THEN 30 ELSE 31

\* the order of datetime.date
DayLE(a, b) ==
    \/ a[1] < b[1]
    \/ a[1] = b[1] /\ a[2] < b[2]
    \/ a[1] = b[1] /\ a[2] = b[2] /\ a[3] <= b[3]

\* date(year, month, 1)
first_day(ym) == <<ym[1], ym[2], 1>>

\* d - timedelta(days=1)
day_before(d) ==
    IF d[3] > 1 THEN <<d[1], d[2], d[3] - 1>>
    ELSE LET p == prev_month(<<d[1], d[2]>>)
         IN  <<p[1], p[2], days_in_month(p[1], p[2])>>

\* variant of last_day that does not stop at today
last_day_of_month(current, now) ==
    day_before(first_day(next_month(current)))

\* generate_monthly_dates: last_day of the month `current`
last_day(current, now) ==
    IF current[1] = now[1] /\ current[2] = now[2] THEN now
    ELSE day_before(first_day(next_month(current)))

\* generate_monthly_dates: the loop, from the month `current` on
RECURSIVE monthly_pairs(_, _)
monthly_pairs(current, now) ==
    IF DayLE(first_day(current), now)
    THEN <<<<first_day(current), last_day(current, now)>>>>
             \o monthly_pairs(next_month(current), now)
    ELSE <<>>

GenYears == GenFirstYear..(GenFirstYear + MaxGenYears - 1)

GenMonths == GenYears \X (1..12)

GenDays == {<<ym[1], ym[2], d>> : ym \in GenMonths, d \in 1..31}

\* the calls generate_monthly_dates(start_year, start_month) on the day now
InitDates ==
    /\ MainInit
    /\ WaitInit
    /\ DriveInit
    /\ call_out = NoCall
    /\ \E start \in GenMonths, now \in GenDays :
          /\ now[3] <= days_in_month(now[1], now[2])
          /\ call_in = [fn |-> "generate_monthly_dates", start |-> start,
                        today |-> now]

GenerateMonthlyDates ==
    /\ call_in.fn = "generate_monthly_dates"
    /\ call_out = NoCall
    /\ call_out' = [fn |-> call_in.fn,
                    dates |-> monthly_pairs(call_in.start, call_in.today)]
    /\ UNCHANGED <<call_in, mainVars, waitVars, driveVars>>

NextDates == GenerateMonthlyDates

SpecDates == InitDates /\ [][NextDates]_vars

\* ------------------------------------------------------------ cloud uploads
Oks(n) == [1..n -> BOOLEAN]

\* what a folder call returned for (parent, name), when it is a folder
ret(parent, folder_name, id) ==
    IF id = NoId THEN {} ELSE {<<parent, folder_name, id>>}

\* the IDs that get_folder_path_ids has returned for the path folder
PathIds == {r[3] : r \in {q \in returned_ids : q[1] = GDRIVE_FOLDER_ID}}

\* a call of get_folder_path_ids
GetFolderPathIds ==
    /\ \E ok \in Oks(3) :
         \E r \in get_folder_path_ids(drive_folders, folder_cache, ok[1], ok[2], ok[3]) :
            /\ Len(r.folders) <= MaxFolders
            /\ drive_folders' = r.folders
            /\ folder_cache' = r.cache
            /\ returned_ids' = returned_ids \cup
                   ret(GDRIVE_FOLDER_ID, PARENT_FOLDER_PATH[1], r.id)
    /\ UNCHANGED <<drive_files, onedrive_files, mainVars, waitVars, callVars>>

\* a call of get_or_create_folder for a section folder under the path folder
GetOrCreateFolder ==
    /\ \E folder_name \in Types, parent \in PathIds, ok \in Oks(2) :
         \E r \in get_or_create_folder(folder_name, parent, drive_folders,
                                      folder_cache, ok[1], ok[2]) :
            /\ Len(r.folders) <= MaxFolders
            /\ drive_folders' = r.folders
            /\ folder_cache' = r.cache
            /\ returned_ids' = returned_ids \cup ret(parent, folder_name, r.id)
    /\ UNCHANGED <<drive_files, onedrive_files, mainVars, waitVars, callVars>>

\* move_and_rename_file's uploader.upload_file(dest_path, filename, property_type)
UploadFileToDrive ==
    /\ \E property_type \in Types, size \in FileSizesUp, ok \in Oks(6) :
         \E file_name \in FileNamesOf(property_type) :
           \E r \in upload_file(file_name, property_type, size, drive_folders,
                               drive_files, folder_cache, ok) :
              /\ Len(r.folders) <= MaxFolders
              /\ Len(r.files) <= MaxFiles
              /\ drive_folders' = r.folders
              /\ drive_files' = r.files
              /\ folder_cache' = r.cache
              /\ returned_ids' = returned_ids
                     \cup ret(GDRIVE_FOLDER_ID, PARENT_FOLDER_PATH[1], r.path)
                     \cup ret(r.path, property_type, r.section)
    /\ UNCHANGED <<onedrive_files, mainVars, waitVars, callVars>>

\* a run of upload_to_gdrive.py's upload_to_drive over output/<type>/<file>
UploadToDrive ==
    /\ \E property_type \in Types, size \in FileSizesUp, ok \in Oks(4),
          listed \in BOOLEAN :
         \E file_name \in FileNamesOf(property_type) :
           \E r \in upload_to_drive(property_type, file_name, size, listed,
                                   drive_folders, drive_files, ok) :
              /\ listed => \E i \in 1..Len(drive_files) : drive_files[i].name = file_name
              /\ Len(r.folders) <= MaxFolders
              /\ Len(r.files) <= MaxFiles
              /\ drive_folders' = r.folders
              /\ drive_files' = r.files
    /\ UNCHANGED <<folder_cache, returned_ids, onedrive_files, mainVars,
                   waitVars, callVars>>

\* a call of OneDriveClient.upload_file into the folder of one type
UploadFileToOneDrive ==
    /\ \E size \in 0..MaxSize, ok_session, ok_put \in BOOLEAN :
         \E filename \in FileNamesOf(PROPERTY_TYPES[1]) :
            /\ onedrive_files' = onedrive_upload_file(filename, size,
                                     onedrive_files, ok_session, ok_put)
            /\ Len(onedrive_files') <= MaxFiles
    /\ UNCHANGED <<drive_folders, drive_files, folder_cache, returned_ids,
                   mainVars, waitVars, callVars>>

\* the process ends and the next one builds its DriveUploader in get_uploader
NewProcess ==
    /\ folder_cache # {}
    /\ folder_cache' = {}
    /\ UNCHANGED <<drive_folders, drive_files, returned_ids, onedrive_files,
                   mainVars, waitVars, callVars>>

NextDrive ==
    \/ GetFolderPathIds
    \/ GetOrCreateFolder
    \/ UploadFileToDrive
    \/ UploadToDrive
    \/ UploadFileToOneDrive
    \/ NewProcess

\* the Drive folder is empty or holds the path folder already
InitDrive ==
    /\ MainInit
    /\ WaitInit
    /\ CallInit
    /\ drive_folders \in {<<>>, <<[name |-> PARENT_FOLDER_PATH[1],
                                   parent |-> GDRIVE_FOLDER_ID]>>}
    /\ drive_files = <<>>
    /\ folder_cache = {}
    /\ returned_ids = {}
    /\ onedrive_files = <<>>

SpecDrive == InitDrive /\ [][NextDrive]_vars

\* ------------------------------------------------------------ one month
\* The processing of one month of one type, from main's call of
\* download_single_month_with_retry to the end of the loop body, with the
\* download phase of each attempt in detail: the steps of the download phase
\* are taken while the attempt is at "wait", and wait_for_download's return
\* value is what the attempt goes on with.

\* a first run has taken up a month of a type
InitMonth ==
    /\ today = FirstToday
    /\ clock_steps = 0
    /\ file = EmptyProgress
    /\ progress = EmptyProgress
    /\ update_mode = FALSE
    /\ properties_to_download = PROPERTY_TYPES
    /\ prop_idx \in 1..Len(PROPERTY_TYPES)
    /\ section_monthly_dates = section_dates(FALSE, 0, FirstToday)
    /\ month_idx \in 1..Len(section_monthly_dates)
    /\ retry_count = 0
    /\ attempt = 0
    /\ dl_result = FALSE
    /\ pc = "dl_enter"
    /\ end = "running"
    /\ loaded = EmptyProgress
    /\ capDetected = FALSE
    /\ noDataSeen = FALSE
    /\ clicks = 0
    /\ fileMoved = FALSE
    /\ fileUploaded = FALSE
    /\ failed = NoFailure
    /\ test_mode = FALSE
    /\ max_months = DEFAULT_MAX_MONTHS
    /\ WaitInit
    /\ CallInit
    /\ DriveInit

\* a step of the download phase of the attempt that has clicked
DownloadPhase ==
    /\ pc = "wait"
    /\ NextWait

\* wait_for_download has returned: the attempt moves the file, or counts as
\* failed.  A file that was not returned stays in TEMP_DOWNLOAD_DIR or is gone
\* (the page refresh ends a download in progress); the next attempt starts its
\* own download phase.
WaitReturns ==
    /\ pc = "wait"
    /\ wpc = "returned"
    /\ IF wait_result = "file"
       THEN /\ Goto("move")
            /\ UNCHANGED <<capDetected, noDataSeen>>
            /\ temp_file' = NoFile
       ELSE /\ RetryOrFail
            /\ temp_file' \in {temp_file, NoFile}
    /\ wpc' = "before_click"
    /\ baseline_files' = {}
    /\ last_size' = 0
    /\ stable_count' = 0
    /\ polls' = 0
    /\ wait_result' = "pending"
    /\ seen' = <<>>
    /\ UNCHANGED <<today, clock_steps, update_mode, properties_to_download,
                   loaded, test_mode, max_months, storeVars, posVars, failed,
                   callVars, driveVars>>

\* the steps of the program (the rest are the browser's)
MonthStep ==
    \/ DlEnter
    \/ SetDates
    \/ ClickExcelDownload
    \/ ClickFailed
    \/ pc = "wait" /\ (ExportClick \/ BaselineAfterSleep \/ WaitCheck \/ WaitTimeout)
    \/ WaitReturns
    \/ MoveFile
    \/ Record

NextMonth ==
    \/ DlEnter
    \/ SetDates
    \/ ClickExcelDownload
    \/ ClickFailed
    \/ DownloadPhase
    \/ WaitReturns
    \/ MoveFile
    \/ Record

\* The process runs on its own thread and the clock goes on: a step of the
\* program that can be taken is taken.  Nothing is assumed of the browser.
SpecMonth == InitMonth /\ [][NextMonth]_vars /\ WF_vars(MonthStep)

\* ------------------------------------------------------------ test mode
\* main's monthly_dates: the months of the update window, or all months from
\* 2006-01 on
monthly_dates(is_update, now) ==
    IF is_update
    THEN generate_monthly_dates(update_start(now), now)
    ELSE generate_monthly_dates(<<2006, 1>>, now)

\* dates[-n:] for n >= 0
last_months(dates, n) ==
    IF n = 0 \/ n >= Len(dates)
    THEN dates
    ELSE SubSeq(dates, Len(dates) - n + 1, Len(dates))

\* the runs are made with --test-mode and --max-months
InitTest ==
    /\ ProcessInit
    /\ test_mode = TRUE
    /\ max_months \in 1..MaxMonthsArg
    /\ WaitInit
    /\ CallInit
    /\ DriveInit

SpecTest == InitTest /\ [][Next]_vars

\* ------------------------------------------------------------ function calls
\* Calls of single functions of the program on the inputs drawn in InitCalls.

\* the months of a run in update mode on a day of the month now, for a type
\* whose last_month is last_completed, and for each of them what
\* is_already_downloaded(update_mode = True) returns when the file exists as
\* exists says
UpdateWindowCalls ==
    UNION {{[fn |-> "update_window", today |-> now,
             last_completed |-> month_key(l), exists |-> e] :
                l \in {now, prev_month(now)},
                e \in SUBSET (0..MONTHS_TO_SUBTRACT)} : now \in GenMonths}

\* days on which load_progress is called
LoadTodays == {FirstToday, next_month(FirstToday)}

\* load_progress with an empty local progress file, Drive usable or not, and
\* the months of the files that Drive holds for each type
LoadProgressCalls ==
    UNION {[fn : {"load_progress"}, today : {now}, drive_ok : BOOLEAN,
            drive_months : [Types -> SUBSET expected_months(now)]] :
                now \in LoadTodays}

\* try_accept_alert: what each pass of the loop finds until the timeout
AlertCalls ==
    UNION {[fn : {"try_accept_alert"}, passes : [1..n -> Alerts]] :
              n \in 0..MaxAlertPolls}

\* OneDriveClient.__init__: no token yet
NewClient == [access_token |-> "None", token_expiry |-> 0]

\* marks a response of the identity provider that names no expires_in
NoExpiresIn == 0 - 1

\* responses of acquire_token_for_client: an error, or a token with or
\* without a lifetime in seconds
TokenResponses ==
    {[has_token |-> FALSE, access_token |-> "None", expires_in |-> NoExpiresIn]}
        \cup [has_token : {TRUE}, access_token : {"t1", "t2"},
              expires_in : {NoExpiresIn, 200, 300, 900}]

\* variant of get_access_token that keeps a token until its expiry
get_access_token_no_margin(client, time, result) ==
    IF client.access_token # "None" /\ time < client.token_expiry
    THEN [client |-> client, returned |-> client.access_token,
          acquired |-> FALSE]
    ELSE IF ~result.has_token
    THEN [client |-> client, returned |-> "Exception", acquired |-> TRUE]
    ELSE LET expires_in == IF result.expires_in = NoExpiresIn
                           THEN DEFAULT_EXPIRES_IN ELSE result.expires_in
         IN  [client |-> [access_token |-> result.access_token,
                          token_expiry |-> time + expires_in],
              returned |-> result.access_token, acquired |-> TRUE]

\* OneDriveClient._get_access_token at time.time() = time, when
\* acquire_token_for_client would answer result: the client after the call,
\* what the call returns ("Exception" when it raises) and whether it asked
\* for a token
get_access_token(client, time, result) ==
    IF client.access_token # "None" /\ time < client.token_expiry
    THEN [client |-> client, returned |-> client.access_token,
          acquired |-> FALSE]
    ELSE IF ~result.has_token
    THEN [client |-> client, returned |-> "Exception", acquired |-> TRUE]
    ELSE LET expires_in == IF result.expires_in = NoExpiresIn
                           THEN DEFAULT_EXPIRES_IN ELSE result.expires_in
         IN  [client |-> [access_token |-> result.access_token,
                          token_expiry |-> time + expires_in - TOKEN_RENEW_MARGIN],
              returned |-> result.access_token, acquired |-> TRUE]

\* seconds from the first call of a client to the call looked at: around the
\* renewal time and the expiry of each lifetime
TokenDelays ==
    UNION {{e - TOKEN_RENEW_MARGIN - 1, e - TOKEN_RENEW_MARGIN,
            e - TOKEN_RENEW_MARGIN + 1, e - 1, e, e + 1} :
               e \in {300, 900, DEFAULT_EXPIRES_IN}} \cap Nat

\* _get_access_token on a client whose first call, at time 0, was answered
\* with first (the client is as that call left it; expires_at is the time at
\* which the token it cached, if any, expires)
TokenCalls ==
    UNION {[fn : {"_get_access_token"},
            client : {get_access_token(NewClient, 0, first).client},
            expires_at : {IF ~first.has_token THEN 0
                          ELSE IF first.expires_in = NoExpiresIn
                          THEN DEFAULT_EXPIRES_IN ELSE first.expires_in},
            time : TokenDelays,
            result : TokenResponses] : first \in TokenResponses}

Min(a, b) == IF a <= b THEN a ELSE b

\* the status codes that let the chunk loop go on
CHUNK_OK == {200, 201, 202}

\* variant of chunk_end that takes the byte after the chunk as its last
chunk_end_exclusive(offset, file_size) == Min(offset + CHUNK_SIZE, file_size - 1)

\* the last byte of the Content-Range interval of the chunk that starts at offset
chunk_end(offset, file_size) == Min(offset + CHUNK_SIZE - 1, file_size - 1)

\* OneDriveClient.upload_file, the chunk loop of a file of file_size bytes:
\* offset is the loop variable, pos the position of the open file, sent the
\* headers of the requests made so far, statuses[i] the answer to the i-th
\* request.  f.read(chunk_size) returns the bytes left, at most chunk_size.
RECURSIVE upload_chunks(_, _, _, _, _)
upload_chunks(file_size, offset, pos, statuses, sent) ==
    IF ~(offset < file_size) THEN [sent |-> sent, result |-> TRUE]
    ELSE LET last == chunk_end(offset, file_size)
             chunk_data == Min(CHUNK_SIZE, file_size - pos)
             request == [content_length |-> chunk_data, first |-> offset,
                         last |-> last, total |-> file_size]
             status == statuses[Len(sent) + 1]
         IN  IF status \notin CHUNK_OK
             THEN [sent |-> Append(sent, request), result |-> FALSE]
             ELSE upload_chunks(file_size, last + 1, pos + chunk_data, statuses,
                                Append(sent, request))

\* sizes above the single-request limit, around the multiples of the chunk
\* size
LargeSizes ==
    {n \in {SINGLE_PUT_LIMIT + 1} \cup
            UNION {{k * CHUNK_SIZE - 1, k * CHUNK_SIZE, k * CHUNK_SIZE + 1} :
                      k \in 2..MaxFileChunks} :
        n > SINGLE_PUT_LIMIT /\ n <= MaxFileChunks * CHUNK_SIZE}

\* upload_file of a large file whose upload session was created: the answers
\* that the chunk requests get
ChunkCalls ==
    [fn : {"upload_file"}, file_size : LargeSizes,
     statuses : [1..MaxFileChunks -> {200, 201, 202, 500}]]

\* the .xlsx names of one local folder, in sorted order
ExcelNames ==
    <<file_name_of(PROPERTY_TYPES[1], 202401), file_name_of(PROPERTY_TYPES[1], 202402)>>

\* glob('*.xlsx') of the folder, sorted: the files present, with their sizes
\* (size_of[i] = 0: no file of the i-th name)
RECURSIVE sorted_excel_files(_, _)
sorted_excel_files(size_of, i) ==
    IF i > Len(ExcelNames) THEN <<>>
    ELSE (IF size_of[i] = 0 THEN <<>>
          ELSE <<[name |-> ExcelNames[i], size |-> size_of[i]]>>)
         \o sorted_excel_files(size_of, i + 1)

\* files().list by name in the folder: the positions in the Drive folder of
\* the files of that name, in the order of the answer
RECURSIVE list_by_name(_, _, _)
list_by_name(files, file_name, i) ==
    IF i > Len(files) THEN <<>>
    ELSE (IF files[i].name = file_name THEN <<i>> ELSE <<>>)
         \o list_by_name(files, file_name, i + 1)

\* variant of file_outcome that does not look at existing_files.json
file_outcome_unlisted(f, existing_in_folder, files) ==
    LET items == list_by_name(files, f.name, 1)
    IN  IF items # <<>>
        THEN (IF files[items[1]].size # f.size THEN "updated" ELSE "skipped")
        ELSE "uploaded"

\* upload_to_drive, the branch taken for the local file f when
\* existing_files.json lists existing_in_folder for its folder and the Drive
\* folder holds files
file_outcome(f, existing_in_folder, files) ==
    LET items == list_by_name(files, f.name, 1)
    IN  IF f.name \in existing_in_folder THEN "skipped"
        ELSE IF items # <<>>
        THEN (IF files[items[1]].size # f.size THEN "updated" ELSE "skipped")
        ELSE "uploaded"

\* upload_to_drive, the loop over the files of one folder from the i-th on:
\* the three counters, the Drive folder, and for the record which file took
\* which branch
RECURSIVE upload_excel_files(_, _, _, _)
upload_excel_files(local, i, existing_in_folder, st) ==
    IF i > Len(local) THEN st
    ELSE LET f == local[i]
             o == file_outcome(f, existing_in_folder, st.files)
             items == list_by_name(st.files, f.name, 1)
         IN  upload_excel_files(local, i + 1, existing_in_folder,
               [uploaded_count |-> st.uploaded_count + (IF o = "uploaded" THEN 1 ELSE 0),
                updated_count |-> st.updated_count + (IF o = "updated" THEN 1 ELSE 0),
                skipped_count |-> st.skipped_count + (IF o = "skipped" THEN 1 ELSE 0),
                files |-> IF o = "uploaded" THEN Append(st.files, f)
                          ELSE IF o = "updated"
                          THEN [st.files EXCEPT ![items[1]].size = f.size]
                          ELSE st.files,
                branches |-> Append(st.branches, <<i, o>>)])

\* the files that a Drive folder can hold (several of one name too)
DriveFolderFiles ==
    UNION {[1..n -> [name : SeqToSet(ExcelNames), size : FileSizesUp]] :
              n \in 0..MaxFiles}

\* upload_to_drive over a local directory of one folder, every API call
\* succeeding
UploadToDriveCalls ==
    [fn : {"upload_to_drive"},
     size_of : [1..Len(ExcelNames) -> 0..MaxSize],
     existing_in_folder : SUBSET SeqToSet(ExcelNames),
     files : DriveFolderFiles]

\* the start of main on a day of the month today with the progress store
\* progress loaded: last_month missing, or around the current month
ModeCalls ==
    UNION {[fn : {"main"}, today : {now},
            progress : [Types -> {0, month_key(prev_month(now)), month_key(now),
                                  month_key(next_month(now))}]] :
               now \in GenMonths}

CallInputs ==
    UpdateWindowCalls \cup LoadProgressCalls \cup AlertCalls \cup TokenCalls
        \cup ChunkCalls \cup UploadToDriveCalls \cup ModeCalls

InitCalls ==
    /\ MainInit
    /\ WaitInit
    /\ DriveInit
    /\ call_out = NoCall
    /\ call_in \in CallInputs

\* main 1907-1918 and the loop's is_already_downloaded check: the window, and
\* the months of it that the check reports as downloaded.  The file of the
\* i-th month of the window exists when i - 1 is in call_in.exists.
UpdateWindow ==
    /\ call_in.fn = "update_window"
    /\ call_out = NoCall
    /\ LET window == section_dates(TRUE, call_in.last_completed, call_in.today)
       IN  call_out' =
              [fn |-> call_in.fn,
               window |-> window,
               skipped |-> {i \in 1..Len(window) :
                              is_already_downloaded(window[i], TRUE, call_in.today,
                                                    (i - 1) \in call_in.exists)}]
    /\ UNCHANGED <<call_in, mainVars, waitVars, driveVars>>

\* load_progress when the local progress file is missing or empty
LoadProgress ==
    /\ call_in.fn = "load_progress"
    /\ call_out = NoCall
    /\ call_out' = [fn |-> call_in.fn,
                    progress |-> load_progress(EmptyProgress, call_in.drive_ok,
                                               call_in.drive_months, call_in.today)]
    /\ UNCHANGED <<call_in, mainVars, waitVars, driveVars>>

\* one call of try_accept_alert
TryAcceptAlert ==
    /\ call_in.fn = "try_accept_alert"
    /\ call_out = NoCall
    /\ LET r == poll_alert(call_in.passes, 1)
       IN  call_out' = [fn |-> call_in.fn, result |-> r.result,
                        accepted |-> r.accepted]
    /\ UNCHANGED <<call_in, mainVars, waitVars, driveVars>>

\* one call of OneDriveClient._get_access_token
GetAccessToken ==
    /\ call_in.fn = "_get_access_token"
    /\ call_out = NoCall
    /\ LET r == get_access_token(call_in.client, call_in.time, call_in.result)
       IN  call_out' = [fn |-> call_in.fn, client |-> r.client,
                        returned |-> r.returned, acquired |-> r.acquired]
    /\ UNCHANGED <<call_in, mainVars, waitVars, driveVars>>

\* OneDriveClient.upload_file of a large file, from the chunk loop on
UploadLargeFile ==
    /\ call_in.fn = "upload_file"
    /\ call_out = NoCall
    /\ LET r == upload_chunks(call_in.file_size, 0, 0, call_in.statuses, <<>>)
       IN  call_out' = [fn |-> call_in.fn, sent |-> r.sent, result |-> r.result]
    /\ UNCHANGED <<call_in, mainVars, waitVars, driveVars>>

\* upload_to_drive over the files of one local folder
UploadFolderToDrive ==
    /\ call_in.fn = "upload_to_drive"
    /\ call_out = NoCall
    /\ LET r == upload_excel_files(sorted_excel_files(call_in.size_of, 1), 1,
                                   call_in.existing_in_folder,
                                   [uploaded_count |-> 0, updated_count |-> 0,
                                    skipped_count |-> 0, files |-> call_in.files,
                                    branches |-> <<>>])
       IN  call_out' = [fn |-> call_in.fn, uploaded_count |-> r.uploaded_count,
                        updated_count |-> r.updated_count,
                        skipped_count |-> r.skipped_count, files |-> r.files,
                        branches |-> r.branches]
    /\ UNCHANGED <<call_in, mainVars, waitVars, driveVars>>

\* main 1796-1841 on one progress store and date, once with --update-mode
\* and once without
ChooseMode ==
    /\ call_in.fn = "main"
    /\ call_out = NoCall
    /\ LET todo == to_download(call_in.progress, call_in.today, 1)
           run(arg_update_mode) ==
               [update_mode |-> decide_update_mode(arg_update_mode, todo),
                properties_to_download |-> decide_properties(arg_update_mode, todo)]
       IN  call_out' = [fn |-> call_in.fn, with_flag |-> run(TRUE),
                        without_flag |-> run(FALSE)]
    /\ UNCHANGED <<call_in, mainVars, waitVars, driveVars>>

NextCalls ==
    \/ UpdateWindow
    \/ LoadProgress
    \/ TryAcceptAlert
    \/ GetAccessToken
    \/ UploadLargeFile
    \/ UploadFolderToDrive
    \/ ChooseMode

SpecCalls == InitCalls /\ [][NextCalls]_vars

\* ------------------------------------------------------------ properties
\* a month of some type is being processed by the loop body of main
InMonth == prop_idx \in 1..Len(properties_to_download) /\ month_idx >= 1

\* an attempt of download_single_month_with_retry has been started for CurMonth
Attempting == InMonth /\ attempt >= 1

\* The months an invocation processes for type t when it starts from the
\* progress file f on the date now (as StartRun and SelectTab compute them).
planned_months(f, now, t) ==
    LET p == load_progress(f, FALSE, EmptyDrive, now)
        todo == to_download(p, now, 1)
    IN  IF todo = <<>> THEN section_dates(TRUE, p[t], now)
        ELSE IF t \in SeqToSet(todo) THEN section_dates(FALSE, p[t], now)
        ELSE <<>>

\* C1: the last_month of every type never decreases, in memory and in the
\* progress file, within a run and from one run to the next.
C1_LastMonthNeverDecreases ==
    [][\A t \in Types : progress'[t] >= progress[t] /\ file'[t] >= file[t]]_vars

\* C2: a month whose attempts all failed in an earlier run is among the months
\* that the run started from the resulting progress file processes.
C2_FailedMonthIsRetried ==
    (pc = "connect" /\ failed # NoFailure) =>
        parse_key(failed.key) \in SeqToSet(planned_months(file, today, failed.type))

C6_CapEndsRun ==
    [][capDetected => (attempt' <= attempt /\ clicks' <= clicks)]_vars

\* C7: after a run was ended by the cap dialog while a month M was in
\* process, M has not been recorded by that run, the progress file holds
\* everything recorded in memory, and the next invocation starts the type of a
\* month whose attempts all failed no later than that month (its first month
\* that has not been completed).
C7_ResumeAtFirstIncomplete ==
    (pc = "idle" /\ end = "cap" /\ InMonth) =>
        /\ file = progress
        /\ file[CurType] = month_key(CurMonth) => loaded[CurType] = month_key(CurMonth)
        /\ failed # NoFailure =>
              LET plan == planned_months(file, today, failed.type)
              IN  plan # <<>> /\ DateLE(plan[1], parse_key(failed.key))

\* C8: when an alert check made during an attempt for the month in process
\* sees the no-data dialog, download_single_month_with_retry returns True for
\* the month without a file having been moved (and main records it next): no
\* further click or attempt is made for the month and the run does not end.
C8_NoDataIsSuccess ==
    [][(attempt >= 1 /\ ~noDataSeen /\ noDataSeen') =>
          (pc' = "record" /\ dl_result' /\ ~fileMoved' /\ end' = "running")]_vars

\* C9: for one month of one type at most MAX_RETRIES attempts are started and
\* at most MAX_RETRIES export clicks are made.
C9_AtMostThreeAttemptsAndClicks ==
    attempt <= MAX_RETRIES /\ clicks <= MAX_RETRIES

\* C10: when download_single_month_with_retry has returned False for a month,
\* main changes neither the progress in memory nor the progress file, and goes
\* on with the next month of the same type (or is done with the type after its
\* last month).
C10_FailureRecordsNothing ==
    [][(pc = "record" /\ ~dl_result) =>
          /\ progress' = progress
          /\ file' = file
          /\ end' = end
          /\ IF month_idx < Len(section_monthly_dates)
             THEN /\ pc' = "reload"
                  /\ prop_idx' = prop_idx
                  /\ month_idx' = month_idx + 1
                  /\ section_monthly_dates' = section_monthly_dates
             ELSE pc' = "select_tab"]_vars

\* C10 witness: the month before the current one failed all its attempts, it is
\* not in the progress, and the run is at the next month of the same type.
C10_Witness ==
    /\ pc = "reload"
    /\ month_idx >= 2
    /\ failed = [type |-> CurType, key |-> month_key(section_monthly_dates[month_idx - 1])]
    /\ progress[CurType] # failed.key
    /\ file[CurType] # failed.key

\* the file that wait_for_download returned is the file in the directory
Stable3(sz) == seen = <<sz, sz, sz>>

\* C4: whenever wait_for_download has returned a file, on either path, the
\* size of that file was the same at the three checks of the directory made
\* last before the return.
C4_ReturnedFileWasStable ==
    wait_result = "file" => Stable3(temp_file.size)

\* C5: when the wait of an attempt has ended and the file that appeared after
\* the export click is a complete Excel file of more than SIZE_MIN bytes whose
\* size was the same at the last three checks, the wait has returned that
\* file, also when the file appeared during the sleep after the click.
C5_StableNewFileIsReturned ==
    (/\ wpc = "returned"
     /\ temp_file.kind = "xlsx"
     /\ ~temp_file.writing
     /\ temp_file.size > SIZE_MIN
     /\ Stable3(temp_file.size)) => wait_result = "file"

\* C11: the step of main that follows a successful month M rewrites the
\* progress file with last_month = M for the type (the file then equals the
\* progress in memory) and only then goes on to the reload for the next month
\* or to the next type; no other step of a run changes the file.
C11_FileRewrittenAfterEachSuccess ==
    [][/\ (pc = "record" /\ dl_result) =>
             /\ file'[CurType] = month_key(CurMonth)
             /\ file' = progress'
             /\ pc' \in {"reload", "select_tab"}
       /\ (pc # "idle" /\ ~(pc = "record" /\ dl_result)) => file' = file]_vars

\* C11 witness: the run is at the reload for the next month and the file
\* records the month before it, which was not recorded when the run started.
C11_Witness ==
    /\ pc = "reload"
    /\ month_idx >= 2
    /\ file[CurType] = month_key(section_monthly_dates[month_idx - 1])
    /\ loaded[CurType] # file[CurType]

\* C12: when main is about to persist a month whose file was downloaded and
\* moved to the destination, that file has been uploaded (and nothing is
\* uploaded before it has been moved).
C12_PersistAfterMoveAndUpload ==
    /\ fileUploaded => fileMoved
    /\ (pc = "record" /\ dl_result /\ fileMoved) => fileUploaded

\* the month <<year, month>> of a date
MonthOf(d) == <<d[1], d[2]>>

\* C13: what generate_monthly_dates(start_year, start_month) returned is
\* empty exactly when the start month is after the month of today; else its
\* first pair is that of the start month, its last pair is that of the current
\* month and ends at today, every pair begins at the first day of its month,
\* every pair but the last ends at the last day of its month, and each pair
\* is that of the month after the pair before it.
C13_MonthlyDatesAreTheMonths ==
    call_out # NoCall =>
        LET r == call_out.dates
            n == Len(r)
            start == call_in.start
            now == call_in.today
        IN  /\ (n = 0) <=> DateLT(MonthOf(now), start)
            /\ n > 0 =>
                  /\ MonthOf(r[1][1]) = start
                  /\ MonthOf(r[n][1]) = MonthOf(now)
                  /\ r[n][2] = now
            /\ \A i \in 1..n :
                  /\ r[i][1][3] = 1
                  /\ MonthOf(r[i][2]) = MonthOf(r[i][1])
                  /\ i < n => r[i][2][3] = days_in_month(r[i][1][1], r[i][1][2])
                  /\ i < n => MonthOf(r[i + 1][1]) = next_month(MonthOf(r[i][1]))

\* C13 witness: a call that returned more than a year of months, one of them
\* the February of a leap year, on a day that is not the last of its month.
C13_Witness ==
    /\ call_out # NoCall
    /\ Len(call_out.dates) > 12
    /\ \E i \in 1..(Len(call_out.dates) - 1) : call_out.dates[i][2][3] = 29
    /\ call_in.today[3] < days_in_month(call_in.today[1], call_in.today[2])

\* C14: the file that wait_for_download has returned, from the loop or after
\* the timeout, has the name of an Excel file, not that of a download in
\* progress.
C14_NoInProgressFileReturned ==
    wait_result = "file" => temp_file.kind = "xlsx"

\* C14 witness: the wait began while the download was in progress, the file
\* got its final name during the wait, and the wait returned it.
C14_Witness ==
    /\ wait_result = "file"
    /\ "crdownload" \in baseline_files

\* a step of main that takes up a month: the first month of a type after the
\* tab selection, or the next month after the month before was skipped or
\* download_single_month_with_retry returned for it
TakesUpMonth ==
    \/ pc = "select_tab" /\ pc' = "check_existing"
    \/ pc \in {"check_existing", "record"} /\ pc' = "reload"

\* C15: in a run every type is processed once; a month is taken up only by the
\* loop of main, after the tab selection (the first month of the list) or when
\* the month before it has been skipped or all its attempts have ended (the
\* next month of the list, of the same type); the list is in strictly
\* ascending order, so every month taken up is later than the one before and
\* no month is taken up twice; no other step changes the month in process.
C15_MonthsInAscendingOrder ==
    [][pc # "idle" =>
         IF TakesUpMonth
         THEN /\ \A i, j \in 1..Len(properties_to_download) :
                    i # j => properties_to_download[i] # properties_to_download[j]
              /\ \A i \in 1..(Len(section_monthly_dates') - 1) :
                    DateLT(section_monthly_dates'[i], section_monthly_dates'[i + 1])
              /\ prop_idx' = prop_idx
              /\ IF pc = "select_tab"
                 THEN month_idx = 0 /\ month_idx' = 1
                 ELSE /\ month_idx' = month_idx + 1
                      /\ section_monthly_dates' = section_monthly_dates
         ELSE \/ UNCHANGED posVars
              \/ month_idx' = 0 /\ pc' = "select_tab" /\ prop_idx' >= prop_idx]_vars

\* C15 witness: an attempt has been started for a month that is not the first
\* of its type's list.
C15_Witness ==
    /\ pc = "set_dates"
    /\ attempt >= 1
    /\ month_idx >= 2


\* C16: after any sequence of uploads to one folder, at most one file of a
\* given name exists in it (an upload of an existing name overwrites), in the
\* Drive and in the OneDrive folder.
C16_OneFilePerName ==
    /\ \A i, j \in 1..Len(drive_files) :
          (drive_files[i].name = drive_files[j].name
              /\ drive_files[i].parent = drive_files[j].parent) => i = j
    /\ \A i, j \in 1..Len(onedrive_files) :
          onedrive_files[i].name = onedrive_files[j].name => i = j

\* C17: at most one folder of a name exists under a parent, and the folder
\* calls return one ID for one (parent, name), also after failed lookups.
C17_OneFolderPerName ==
    /\ \A i, j \in 1..Len(drive_folders) :
          (drive_folders[i].name = drive_folders[j].name
              /\ drive_folders[i].parent = drive_folders[j].parent) => i = j
    /\ \A r, q \in returned_ids :
          (r[1] = q[1] /\ r[2] = q[2]) => r[3] = q[3]

\* the month has been given up or recorded and the loop body is over, or the
\* run has ended with an exception
MonthDone == pc \in {"reload", "select_tab", "idle"}

\* C18: the processing of one month of one type always terminates: every
\* call of wait_for_download returns, also when the file in progress never
\* completes and when no file appears, and download_single_month_with_retry
\* returns after at most MAX_RETRIES attempts.
C18_MonthProcessingTerminates ==
    /\ (wpc = "polling") ~> (wpc = "returned")
    /\ (pc = "dl_enter") ~> MonthDone
    /\ [](attempt <= MAX_RETRIES)

\* the third attempt's wait has timed out with the download still in progress
C18_Witness ==
    /\ attempt = MAX_RETRIES
    /\ wpc = "returned"
    /\ wait_result = "None"
    /\ temp_file.kind = "crdownload"

\* C19: in test mode a month that is attempted is one of the max_months most
\* recent months (the months that main keeps in monthly_dates[-max_months:]),
\* so that at most max_months months are attempted.
C19_TestModeAttemptsRecentMonths ==
    (test_mode /\ Attempting) =>
        CurMonth \in SeqToSet(last_months(monthly_dates(update_mode, today), max_months))

C22_RebuildRecordsMonthBeforeOldestMissing ==
    (call_out # NoCall /\ call_out.fn = "load_progress" /\ call_in.drive_ok) =>
        \A t \in Types :
            LET present == call_in.drive_months[t]
                missing == expected_months(call_in.today) \ present
            IN  present # {} =>
                    call_out.progress[t] =
                        IF missing # {}
                        THEN month_key(prev_month(MinDate(missing)))
                        ELSE month_key(MaxDate(present))

\* the passes of a try_accept_alert call in which an alert was read
C23_Observed == {i \in 1..Len(call_in.passes) : call_in.passes[i].present}

\* C23: try_accept_alert returns False exactly when no pass before the
\* timeout read an alert; otherwise it ends in the first pass that read one,
\* having accepted that alert, with DOWNLOAD_LIMIT_100 when its text contains
\* "100", else NO_DATA_AVAILABLE when it contains the no-data phrase, else
\* True.
C23_AlertAcceptedAndClassified ==
    (call_out # NoCall /\ call_out.fn = "try_accept_alert") =>
        /\ (call_out.result = "False") <=> (C23_Observed = {})
        /\ call_out.accepted = {i \in C23_Observed : \A j \in C23_Observed : i <= j}
        /\ \A i \in call_out.accepted :
              LET a == call_in.passes[i]
              IN  /\ (call_out.result = "DOWNLOAD_LIMIT_100") <=> a.has100
                  /\ (call_out.result = "NO_DATA_AVAILABLE")
                        <=> (~a.has100 /\ a.hasNoData)
                  /\ (call_out.result = "True") <=> (~a.has100 /\ ~a.hasNoData)

\* C23 witness: after a pass without alert, an alert whose text contains both
\* "100" and the no-data phrase was accepted and reported as the cap
C23_Witness ==
    /\ call_out # NoCall
    /\ call_out.fn = "try_accept_alert"
    /\ call_out.accepted = {2}
    /\ call_in.passes[2].has100
    /\ call_in.passes[2].hasNoData
    /\ call_out.result = "DOWNLOAD_LIMIT_100"

\* a call of _get_access_token finds a cached token that expires more than
\* five minutes after the time of the call
C24_CachedAndFresh ==
    /\ call_in.client.access_token # "None"
    /\ call_in.expires_at - call_in.time > 300

\* C24: _get_access_token returns the cached token without asking for a new
\* one exactly when a token is cached and it is more than 5 minutes before
\* its expiry; otherwise it asks for one, returns and caches it when it gets
\* one, and raises with the cached token and expiry unchanged when not.
C24_TokenReusedUntilFiveMinutesBeforeExpiry ==
    (call_out # NoCall /\ call_out.fn = "_get_access_token") =>
        /\ C24_CachedAndFresh <=> ~call_out.acquired
        /\ ~call_out.acquired =>
              /\ call_out.returned = call_in.client.access_token
              /\ call_out.client = call_in.client
        /\ (call_out.acquired /\ ~call_in.result.has_token) =>
              /\ call_out.returned = "Exception"
              /\ call_out.client = call_in.client
        /\ (call_out.acquired /\ call_in.result.has_token) =>
              /\ call_out.returned = call_in.result.access_token
              /\ call_out.client.access_token = call_in.result.access_token

\* C24 witness: exactly five minutes before the expiry of the cached token
\* the call asks for a new one, gets none and raises, the cache unchanged
C24_Witness ==
    /\ call_out # NoCall
    /\ call_out.fn = "_get_access_token"
    /\ call_in.client.access_token = "t1"
    /\ call_in.expires_at - call_in.time = 300
    /\ call_out.acquired
    /\ call_out.returned = "Exception"
    /\ call_out.client = call_in.client

\* C25: the chunks sent for a file of more than 5 MB start at byte 0, follow
\* one another without gap or overlap, are 1 to 4 MB long with Content-Length
\* equal to the length of the interval, and end at the last byte when the
\* upload returns True; it returns False exactly when the last chunk sent
\* was answered with a status outside 200/201/202, and every chunk before
\* the last sent was answered with one of the three.
C25_ChunksCoverFileInOrder ==
    (call_out # NoCall /\ call_out.fn = "upload_file") =>
        LET sent == call_out.sent
            n == Len(sent)
            ok(i) == call_in.statuses[i] \in {200, 201, 202}
        IN  /\ n >= 1
            /\ n * 4 * 1024 * 1024 < call_in.file_size + 4 * 1024 * 1024
            /\ sent[1].first = 0
            /\ \A i \in 1..n :
                  /\ sent[i].total = call_in.file_size
                  /\ sent[i].last - sent[i].first + 1 \in 1..(4 * 1024 * 1024)
                  /\ sent[i].content_length = sent[i].last - sent[i].first + 1
                  /\ sent[i].last <= call_in.file_size - 1
            /\ \A i \in 1..(n - 1) :
                  /\ sent[i + 1].first = sent[i].last + 1
                  /\ ok(i)
            /\ call_out.result <=> ok(n)
            /\ call_out.result => sent[n].last = call_in.file_size - 1

\* C25 witness: of a file of 8 MB + 1 byte the second chunk is refused and
\* the third, of one byte, is not sent
C25_Witness ==
    /\ call_out # NoCall
    /\ call_out.fn = "upload_file"
    /\ call_in.file_size = 8 * 1024 * 1024 + 1
    /\ call_in.statuses[1] = 202
    /\ call_in.statuses[2] = 500
    /\ Len(call_out.sent) = 2
    /\ ~call_out.result

\* the local files of an upload_to_drive call
C26_Local == sorted_excel_files(call_in.size_of, 1)

\* the sizes of the files of a name that Drive held before the call
C26_DriveSizes(name) ==
    {call_in.files[j].size : j \in {k \in 1..Len(call_in.files) :
                                        call_in.files[k].name = name}}

\* the branches recorded for the i-th local file
C26_BranchesOf(i) ==
    {k \in 1..Len(call_out.branches) : call_out.branches[k][1] = i}

\* C26: upload_to_drive counts every local file once, as uploaded, updated or
\* skipped, so the counters sum to the number of files; a file listed in
\* existing_files.json is skipped and no file of its name in Drive changes; a
\* file not listed is uploaded when Drive has none of its name, updated when
\* what Drive has of its name differs in size, skipped when it is of equal
\* size.
C26_EveryFileClassifiedOnce ==
    (call_out # NoCall /\ call_out.fn = "upload_to_drive") =>
        /\ call_out.uploaded_count + call_out.updated_count
              + call_out.skipped_count = Len(C26_Local)
        /\ \A b \in {"uploaded", "updated", "skipped"} :
              Cardinality({k \in 1..Len(call_out.branches) :
                              call_out.branches[k][2] = b})
                 = (IF b = "uploaded" THEN call_out.uploaded_count
                    ELSE IF b = "updated" THEN call_out.updated_count
                    ELSE call_out.skipped_count)
        /\ \A i \in 1..Len(C26_Local) :
              LET f == C26_Local[i]
                  sizes == C26_DriveSizes(f.name)
                  after == {call_out.files[j].size :
                               j \in {k \in 1..Len(call_out.files) :
                                         call_out.files[k].name = f.name}}
              IN  /\ Cardinality(C26_BranchesOf(i)) = 1
                  /\ \A k \in C26_BranchesOf(i) :
                        LET b == call_out.branches[k][2]
                        IN  /\ f.name \in call_in.existing_in_folder =>
                                  b = "skipped" /\ after = sizes
                            /\ (f.name \notin call_in.existing_in_folder
                                   /\ sizes = {}) =>
                                  b = "uploaded" /\ after = {f.size}
                            /\ (f.name \notin call_in.existing_in_folder
                                   /\ sizes # {} /\ f.size \notin sizes) =>
                                  b = "updated" /\ f.size \in after
                            /\ (f.name \notin call_in.existing_in_folder
                                   /\ sizes = {f.size}) =>
                                  b = "skipped" /\ after = sizes

\* C26 witness: of two local files the first is listed and skipped although
\* Drive has no file of its name, the second is not listed and updated
C26_Witness ==
    /\ call_out # NoCall
    /\ call_out.fn = "upload_to_drive"
    /\ Len(C26_Local) = 2
    /\ call_in.existing_in_folder = {ExcelNames[1]}
    /\ C26_DriveSizes(ExcelNames[1]) = {}
    /\ call_out.skipped_count = 1
    /\ call_out.updated_count = 1
    /\ call_out.uploaded_count = 0

C28_OnlySuccessChangesProgress ==
    [][\/ (progress' = progress /\ file' = file)
       \/ /\ pc = "record"
          /\ dl_result
          /\ progress' = [progress EXCEPT ![CurType] = month_key(CurMonth)]
          /\ file' = progress']_vars

\* C28 witness: the first month of a type was skipped (no download was
\* tried, nothing failed) and the loop is at the second month with the
\* progress of the type as loaded
C28_Witness ==
    /\ pc = "check_existing"
    /\ month_idx = 2
    /\ failed = NoFailure
    /\ ~capDetected
    /\ progress = loaded
    /\ progress[CurType] < month_key(section_monthly_dates[1])
====
